---- MODULE Spec2Model ----
(***************************************************************************)
(* Model of the MindlessGen driver, src/src/mindlessgen/generator/main.py: *)
(* generator (the coordinator) and single_molecule_generator (the cycle    *)
(* worker run by the processes of a multiprocessing pool).                 *)
(*                                                                         *)
(* The coordinator is one process with the program counter pc; every task  *)
(* of a batch is a call of single_molecule_generator with its own program  *)
(* counter tasks[t, c].pc.  The calls to the manager's Event (is_set, set) *)
(* are separate remote calls, so each is one atomic step of its own.       *)
(***************************************************************************)
EXTENDS Integers, Sequences, FiniteSets, TLC

\* ---------------------------------------------------------------- bounds
MaxMolecules == 2
MaxCycles == 3
MaxParallel == 2
MaxCpu == 2
MaxVerbosity == 1
MaxAtoms == 3

Targets == 0..(MaxMolecules - 1)
Cycles == 0..(MaxCycles - 1)

\* ---------------------------------------------------------------- values
\* Python's None, as a result of a worker or as an unset optional.
None == [kind |-> "None"]

\* A Molecule, made by generate_random_molecule in the call for cycle c of
\* target t; iterative_optimization and postprocess_mol each return a new
\* state of it.
NewMolecule(t, c) ==
    [kind |-> "Molecule", target |-> t, cycle |-> c,
     optimized |-> FALSE, postprocessed |-> FALSE]

VARIABLES
    config,               \* the ConfigManager object of the coordinator
    cpu_count,            \* mp.cpu_count()
    pc,                   \* position of generator
    num_cores,            \* local of generator
    molcount,             \* loop variable of generator
    events,               \* the manager Events created so far (their flags)
    stop_event,           \* local of generator: index into events, 0 = unbound
    backup_verbosity,     \* local of generator, -1 = None
    results,              \* local of generator: the list starmap returned
    optimized_molecules,  \* local of generator
    retval,               \* what generator returned
    error,                \* molecule number named by the raised RuntimeError
    tasks,                \* the calls of single_molecule_generator
    config0,              \* the configuration as it was when generator was called
    paths,                \* what get_xtb_path / get_orca_path answer on this machine
    refine_engine,        \* local of generator
    postprocess_engine,   \* local of generator
    setup_calls,          \* the engines setup_engines was called for
    exception,            \* the exception that left generator before the loop
    warnings,             \* how often each warning of generator was emitted
    atom_types,           \* argument of set_random_charge
    charge_pc,            \* position of the call of set_random_charge
    charge,               \* result of set_random_charge
    uhf                   \* result of set_random_charge

\* What the driver never writes, and what only its start-up writes.
envFrame == <<config0, paths, atom_types, charge_pc, charge, uhf>>
setupFrame == <<refine_engine, postprocess_engine, setup_calls, exception,
                warnings>>

vars == <<config, cpu_count, pc, num_cores, molcount, events, stop_event,
          backup_verbosity, results, optimized_molecules, retval, error,
          tasks, envFrame, setupFrame>>

\* A call that was not submitted yet.
NoTask ==
    [pc |-> "unsubmitted", config |-> None, ev |-> 0, mol |-> None,
     result |-> None, ran |-> {}, failed |-> "no", didset |-> FALSE,
     checks |-> 0, out |-> {}]

\* results before the first starmap: the local is not bound yet.
NoResults == [c \in Cycles |-> None]

NoReturn == [returned |-> FALSE, has_list |-> FALSE, molecules |-> <<>>, code |-> 0]

\* ---------------------------------------------------------------- Init
\* The engine names a configuration may give: the two that setup_engines
\* knows and one that it does not.
EngineNames == {"xtb", "orca", "gxtb"}

\* What a path function does: it returns a path, returns nothing, or raises
\* ImportError.
PathOutcomes == {"found", "empty", "raises"}

\* No call of set_random_charge is under way.
ChargeIdle ==
    /\ atom_types = <<>>
    /\ charge_pc = "idle"
    /\ charge = 0
    /\ uhf = 0

\* The state of generator when it is called.
DriverInit ==
    /\ config0 = config
    /\ pc = "start"
    /\ refine_engine = "unbound"
    /\ postprocess_engine = "unbound"
    /\ setup_calls = {}
    /\ exception = "none"
    /\ warnings = [clamp |-> 0, verbosity |-> 0]
    /\ num_cores = 0
    /\ molcount = 0
    /\ events = <<>>
    /\ stop_event = 0
    /\ backup_verbosity = -1
    /\ results = NoResults
    /\ optimized_molecules = <<>>
    /\ retval = NoReturn
    /\ error = 0
    /\ tasks = [w \in Targets \X Cycles |-> NoTask]

\* generator has just been called with a configuration whose engines are
\* installed.
Init ==
    /\ config \in [verbosity : 0..MaxVerbosity,
                   print_config : BOOLEAN,
                   postprocess : BOOLEAN,
                   parallel : 1..MaxParallel,
                   num_molecules : 1..MaxMolecules,
                   max_cycles : 1..MaxCycles,
                   refine_engine : {"xtb"},
                   postprocess_engine : {"orca"}]
    /\ cpu_count \in 1..MaxCpu
    /\ paths = [xtb |-> "found", orca |-> "found"]
    /\ DriverInit
    /\ ChargeIdle

\* generator has just been called with any engine configuration, on a machine
\* with one core.
InitEngines ==
    /\ config \in [verbosity : {0},
                   print_config : BOOLEAN,
                   postprocess : BOOLEAN,
                   parallel : {1},
                   num_molecules : 1..MaxMolecules,
                   max_cycles : 1..MaxCycles,
                   refine_engine : EngineNames,
                   postprocess_engine : EngineNames]
    /\ cpu_count = 1
    /\ paths \in [xtb : PathOutcomes, orca : PathOutcomes]
    /\ DriverInit
    /\ ChargeIdle

\* ---------------------------------------------------------------- helpers
Min(a, b) == IF a < b THEN a ELSE b

\* Mutant: the configured parallelism is used as it is.
NumCoresUnclamped(cfg, cpus) == cfg.parallel

\* line 55: the lower of the available cores and the configured parallelism.
NumCores(cfg, cpus) == Min(cpus, cfg.parallel)

\* Mutant: the new event starts with the flag of the last one, as one event
\* shared by all the targets would.
StaleEvent(evs) ==
    Append(evs, IF Len(evs) = 0 THEN FALSE ELSE evs[Len(evs)])

\* lines 74-75: manager.Event() makes a new event, whose flag is false.
FreshEvent(evs) == Append(evs, FALSE)

\* Mutant: the verbosity is lowered whatever the number of cores.
BatchVerbosityAlways(cores, v) == 0

\* Mutant: the verbosity is never lowered.
BatchVerbosityKept(cores, v) == v

\* lines 78-82: the verbosity the batch runs with.
BatchVerbosity(cores, v) == IF cores > 1 /\ v > 0 THEN 0 ELSE v

\* lines 77-81: backup_verbosity, -1 for None.
BackupOf(cores, v) == IF cores > 1 /\ v > 0 THEN v ELSE -1

\* Mutant: the verbosity is not restored.
NotRestored(backup, v) == v

\* lines 97-99: the verbosity after the batch.
RestoredVerbosity(backup, v) == IF backup # -1 THEN backup ELSE v

\* The cycles of the batch of a configuration: range(config.general.max_cycles).
CyclesOf(cfg) == 0..(cfg.max_cycles - 1)

Running(t) ==
    {c \in Cycles : tasks[t, c].pc \notin {"unsubmitted", "queued", "returned", "collected",
                               "terminated"}}

\* Mutant: the results are taken as soon as one call has returned.
BatchAnyReturned(t) ==
    \E c \in CyclesOf(config) : tasks[t, c].pc = "returned"

\* Mutant: the results are taken as soon as one call has returned a molecule.
BatchFirstSuccess(t) ==
    \E c \in CyclesOf(config) :
        tasks[t, c].pc = "returned" /\ tasks[t, c].result # None

\* Mutant: starmap waits for a result of every cycle up to the largest
\* max_cycles, also of cycles that were never submitted.
BatchAllSlots(t) ==
    \A c \in Cycles : tasks[t, c].pc = "returned"

\* lines 86-93: pool.starmap returns when every call of the batch has returned.
BatchComplete(t) ==
    \A c \in CyclesOf(config) : tasks[t, c].pc = "returned"

\* Mutant: the loop over the results has no break: the last result that is not
\* None is kept.
LastResult(res, n) ==
    IF \E i \in 0..(n - 1) : res[i] # None
    THEN CHOOSE i \in 0..(n - 1) :
             /\ res[i] # None
             /\ \A j \in (i + 1)..(n - 1) : res[j] = None
    ELSE -1

\* lines 101-107: the index of the first result that is not None, -1 if none.
FirstResult(res, n) ==
    IF \E i \in 0..(n - 1) : res[i] # None
    THEN CHOOSE i \in 0..(n - 1) :
             /\ res[i] # None
             /\ \A j \in 0..(i - 1) : res[j] = None
    ELSE -1

\* lines 86, 93: leaving the with block ends the pool and its processes; the
\* calls of the batch are no more: their results are in the list starmap
\* returned ("collected"), a call that had not returned is killed.
Discard(task) ==
    IF task.pc = "unsubmitted" THEN task
    ELSE IF task.pc = "returned" THEN [NoTask EXCEPT !.pc = "collected"]
    ELSE [NoTask EXCEPT !.pc = "terminated"]

\* Mutant: the message names the 0-based loop variable.
ErrorIndexZeroBased(count) == count

\* line 111: the molecule number the error message names.
ErrorIndex(count) == count + 1

\* Mutant: the list is made anew for every molecule.
AcceptAnew(mols, m) == <<m>>

\* line 116: optimized_molecules.append(optimized_molecule)
Accept(mols, m) == Append(mols, m)

\* ------------------------------------------- steps of single_molecule_generator
\* Each operator gives the call's record after the step.

\* Mutant: the call does not look at the signal when it starts.
IsSetStartIgnored(task, flag) == [task EXCEPT !.pc = "generate"]

\* lines 134-138: what the call prints once it has passed the first check.
CycleMessage(v) == IF v = 0 THEN {"tick"} ELSE {"cycle"}

\* lines 165-168, 180-183: what the call prints when a step failed.
FailureMessage(v, step) ==
    (IF v > 0 THEN {step \o "_failed"} ELSE {})
        \cup (IF v > 1 THEN {step \o "_error"} ELSE {})

\* lines 188-189: what the call prints when it returns its molecule.
SuccessMessage(v) == IF v > 1 THEN {"successful"} ELSE {}

\* lines 131-138: flag is what stop_event.is_set() answered.
IsSetStartStep(task, flag) ==
    IF flag
    THEN [task EXCEPT !.pc = "returned", !.result = None, !.checks = @ + 1]
    ELSE [task EXCEPT !.pc = "generate", !.checks = @ + 1,
                      !.out = @ \cup CycleMessage(task.config.verbosity)]

\* line 146: generate_random_molecule.
GenerateStep(task, t, c) ==
    [task EXCEPT !.pc = "optimize", !.mol = NewMolecule(t, c),
                 !.ran = @ \cup {"generate"}]

\* Mutant: the RuntimeError of iterative_optimization is swallowed and the
\* call goes on with the molecule as generated.
OptimizeStepGoesOn(task, ok) ==
    [task EXCEPT !.mol = [@ EXCEPT !.optimized = ok],
                 !.ran = @ \cup {"optimize"},
                 !.failed = IF ok THEN @ ELSE "refine",
                 !.pc = IF task.config.postprocess
                        THEN "postprocess" ELSE "is_set"]

\* lines 148-171: iterative_optimization returns (ok) or raises RuntimeError.
OptimizeStep(task, ok) ==
    IF ok
    THEN [task EXCEPT !.mol = [@ EXCEPT !.optimized = TRUE],
                      !.ran = @ \cup {"optimize"},
                      !.pc = IF task.config.postprocess
                             THEN "postprocess" ELSE "is_set"]
    ELSE [task EXCEPT !.ran = @ \cup {"optimize"}, !.failed = "refine",
                      !.pc = "returned", !.result = None,
                      !.out = @ \cup FailureMessage(task.config.verbosity,
                                                    "refine")]

\* Mutant: a failed postprocessing falls back to the molecule before it.
PostprocessStepFallback(task, ok) ==
    [task EXCEPT !.mol = [@ EXCEPT !.postprocessed = ok],
                 !.ran = @ \cup {"postprocess"},
                 !.failed = IF ok THEN @ ELSE "postprocess",
                 !.pc = "is_set"]

\* lines 171-184: postprocess_mol returns (ok) or raises RuntimeError.
PostprocessStep(task, ok) ==
    IF ok
    THEN [task EXCEPT !.mol = [@ EXCEPT !.postprocessed = TRUE],
                      !.ran = @ \cup {"postprocess"}, !.pc = "is_set"]
    ELSE [task EXCEPT !.ran = @ \cup {"postprocess"}, !.failed = "postprocess",
                      !.pc = "returned", !.result = None,
                      !.out = @ \cup FailureMessage(task.config.verbosity,
                                                    "postprocess")]

\* Mutant: the call sets the signal without looking at it first.
IsSetEndIgnored(task, flag) == [task EXCEPT !.pc = "set"]

\* Mutant: the test of the signal is inverted.
IsSetEndInverted(task, flag) ==
    IF flag
    THEN [task EXCEPT !.pc = "set", !.checks = @ + 1]
    ELSE [task EXCEPT !.pc = "returned", !.result = None, !.checks = @ + 1]

\* lines 186, 191-192: flag is what stop_event.is_set() answered.
IsSetEndStep(task, flag) ==
    IF flag
    THEN [task EXCEPT !.pc = "returned", !.result = None, !.checks = @ + 1]
    ELSE [task EXCEPT !.pc = "set", !.checks = @ + 1]

\* lines 187-190: stop_event.set() was called; the molecule is returned.
SetStep(task) ==
    [task EXCEPT !.pc = "returned", !.result = task.mol, !.didset = TRUE,
                 !.out = @ \cup SuccessMessage(task.config.verbosity)]

\* ---------------------------------------------------------------- generator
\* Mutant: a path function that returns nothing is taken to have found the
\* engine (the test "if not path" is missing).
SetupEngineNoCheck(engine_type, answers) ==
    IF engine_type = "xtb"
    THEN IF answers.xtb # "raises"
         THEN [ok |-> TRUE, engine |-> "XTB", exc |-> "none"]
         ELSE [ok |-> FALSE, engine |-> "unbound", exc |-> "ImportError"]
    ELSE IF engine_type = "orca"
    THEN IF answers.orca # "raises"
         THEN [ok |-> TRUE, engine |-> "ORCA", exc |-> "none"]
         ELSE [ok |-> FALSE, engine |-> "unbound", exc |-> "ImportError"]
    ELSE [ok |-> FALSE, engine |-> "unbound", exc |-> "NotImplementedError"]

\* lines 221-247: setup_engines for one engine name: the engine, or the
\* exception it raises.  A path function that returns nothing and one that
\* raises ImportError both end in ImportError.
SetupEngine(engine_type, answers) ==
    IF engine_type = "xtb"
    THEN IF answers.xtb = "found"
         THEN [ok |-> TRUE, engine |-> "XTB", exc |-> "none"]
         ELSE [ok |-> FALSE, engine |-> "unbound", exc |-> "ImportError"]
    ELSE IF engine_type = "orca"
    THEN IF answers.orca = "found"
         THEN [ok |-> TRUE, engine |-> "ORCA", exc |-> "none"]
         ELSE [ok |-> FALSE, engine |-> "unbound", exc |-> "ImportError"]
    ELSE [ok |-> FALSE, engine |-> "unbound", exc |-> "NotImplementedError"]

\* lines 44-49: whether generator sets up the postprocess engine.
NeedsPostprocessEngine(cfg) == cfg.postprocess

\* lines 56-61: the warning that the parallelism was clamped.
ClampWarnings(cfg, cpus) == IF cfg.parallel > cpus THEN 1 ELSE 0

\* lines 65-70: the warning that parallelization disables verbosity.
VerbosityWarnings(cores, v) == IF cores > 1 /\ v > 0 THEN 1 ELSE 0

\* lines 32-72: up to the loop over the molecules: the print_config exit, the
\* engines, the number of cores and the warnings.
Start ==
    /\ pc = "start"
    /\ LET refine == SetupEngine(config.refine_engine, paths)
           post == SetupEngine(config.postprocess_engine, paths)
       IN IF config.print_config
          THEN /\ pc' = "returned"
               /\ retval' = [returned |-> TRUE, has_list |-> FALSE,
                             molecules |-> <<>>, code |-> 0]
               /\ UNCHANGED <<num_cores, setupFrame>>
          ELSE IF ~refine.ok
          THEN /\ pc' = "aborted"
               /\ exception' = refine.exc
               /\ setup_calls' = {"refine"}
               /\ UNCHANGED <<num_cores, retval, refine_engine,
                              postprocess_engine, warnings>>
          ELSE IF NeedsPostprocessEngine(config) /\ ~post.ok
          THEN /\ pc' = "aborted"
               /\ exception' = post.exc
               /\ setup_calls' = {"refine", "postprocess"}
               /\ refine_engine' = refine.engine
               /\ UNCHANGED <<num_cores, retval, postprocess_engine, warnings>>
          ELSE /\ pc' = "loop"
               /\ refine_engine' = refine.engine
               /\ postprocess_engine' = IF NeedsPostprocessEngine(config)
                                        THEN post.engine ELSE "None"
               /\ setup_calls' = IF NeedsPostprocessEngine(config)
                                 THEN {"refine", "postprocess"} ELSE {"refine"}
               /\ num_cores' = NumCores(config, cpu_count)
               /\ warnings' =
                      [clamp |-> ClampWarnings(config, cpu_count),
                       verbosity |-> VerbosityWarnings(num_cores',
                                                       config.verbosity)]
               /\ UNCHANGED <<retval, exception>>
    /\ UNCHANGED <<config, cpu_count, molcount, events, stop_event,
                   backup_verbosity, results, optimized_molecules, error, tasks,
                   envFrame>>

\* lines 73-93: one more molecule: a fresh event, the verbosity override, and
\* the batch handed to the pool.
Submit ==
    /\ pc = "loop"
    /\ molcount < config.num_molecules
    /\ events' = FreshEvent(events)
    /\ stop_event' = Len(events')
    /\ backup_verbosity' = BackupOf(num_cores, config.verbosity)
    /\ config' = [config EXCEPT
                    !.verbosity = BatchVerbosity(num_cores, config.verbosity)]
    /\ tasks' = [w \in Targets \X Cycles |->
                    IF w[1] = molcount /\ w[2] \in CyclesOf(config)
                    THEN [NoTask EXCEPT !.pc = "queued", !.config = config',
                                        !.ev = stop_event']
                    ELSE tasks[w]]
    /\ pc' = "starmap"
    /\ UNCHANGED <<cpu_count, num_cores, molcount, results,
                   optimized_molecules, retval, error, envFrame, setupFrame>>

\* lines 87-116: starmap returns the results in the order of the cycles (the
\* local results), the pool ends, the verbosity is restored and the first
\* result that is not None is accepted.
Collect ==
    /\ pc = "starmap"
    /\ BatchComplete(molcount)
    /\ LET res == [c \in Cycles |-> tasks[molcount, c].result]
           i == FirstResult(res, config.max_cycles)
       IN /\ results' = res
          /\ config' = [config EXCEPT
                          !.verbosity = RestoredVerbosity(backup_verbosity, @)]
          /\ tasks' = [w \in Targets \X Cycles |->
                          IF w[1] = molcount THEN Discard(tasks[w])
                          ELSE tasks[w]]
          /\ IF i = -1
             THEN /\ pc' = "raised"
                  /\ error' = ErrorIndex(molcount)
                  /\ UNCHANGED <<optimized_molecules, molcount>>
             ELSE /\ pc' = "loop"
                  /\ optimized_molecules' = Accept(optimized_molecules, res[i])
                  /\ molcount' = molcount + 1
                  /\ UNCHANGED error
    /\ UNCHANGED <<cpu_count, num_cores, events, stop_event, backup_verbosity,
                   retval, envFrame, setupFrame>>

\* line 118: the loop is over.
Return ==
    /\ pc = "loop"
    /\ molcount >= config.num_molecules
    /\ pc' = "returned"
    /\ retval' = [returned |-> TRUE, has_list |-> TRUE,
                  molecules |-> optimized_molecules, code |-> 0]
    /\ UNCHANGED <<config, cpu_count, num_cores, molcount, events, stop_event,
                   backup_verbosity, results, optimized_molecules, error, tasks,
                   envFrame, setupFrame>>

\* ---------------------------------------------------------------- the pool
workerFrame == <<config, cpu_count, pc, num_cores, molcount, stop_event,
                 backup_verbosity, results, optimized_molecules, retval, error,
                 envFrame, setupFrame>>

\* lines 86-93: a free process of the pool takes the next call of the batch;
\* the pool has num_cores processes and hands the calls out in cycle order
\* (starmap cuts the batch into chunks of one call as long as max_cycles is at
\* most 4 * num_cores, which holds within the bounds).
Fetch(t, c) ==
    /\ tasks[t, c].pc = "queued"
    /\ \A d \in Cycles : d < c => tasks[t, d].pc # "queued"
    /\ Cardinality(Running(t)) < num_cores
    /\ tasks' = [tasks EXCEPT ![t, c].pc = "is_set_start"]
    /\ UNCHANGED <<workerFrame, events>>

\* lines 131-132
IsSetStart(t, c) ==
    /\ tasks[t, c].pc = "is_set_start"
    /\ tasks' = [tasks EXCEPT
                   ![t, c] = IsSetStartStep(@, events[@.ev])]
    /\ UNCHANGED <<workerFrame, events>>

\* line 146
Generate(t, c) ==
    /\ tasks[t, c].pc = "generate"
    /\ tasks' = [tasks EXCEPT ![t, c] = GenerateStep(@, t, c)]
    /\ UNCHANGED <<workerFrame, events>>

\* lines 148-169
Optimize(t, c) ==
    /\ tasks[t, c].pc = "optimize"
    /\ \E ok \in BOOLEAN :
          tasks' = [tasks EXCEPT ![t, c] = OptimizeStep(@, ok)]
    /\ UNCHANGED <<workerFrame, events>>

\* lines 171-184
Postprocess(t, c) ==
    /\ tasks[t, c].pc = "postprocess"
    /\ \E ok \in BOOLEAN :
          tasks' = [tasks EXCEPT ![t, c] = PostprocessStep(@, ok)]
    /\ UNCHANGED <<workerFrame, events>>

\* line 186
IsSetEnd(t, c) ==
    /\ tasks[t, c].pc = "is_set"
    /\ tasks' = [tasks EXCEPT
                   ![t, c] = IsSetEndStep(@, events[@.ev])]
    /\ UNCHANGED <<workerFrame, events>>

\* lines 187-190
Set(t, c) ==
    /\ tasks[t, c].pc = "set"
    /\ events' = [events EXCEPT ![tasks[t, c].ev] = TRUE]
    /\ tasks' = [tasks EXCEPT ![t, c] = SetStep(@)]
    /\ UNCHANGED workerFrame

Worker(t, c) ==
    \/ Fetch(t, c)
    \/ IsSetStart(t, c)
    \/ Generate(t, c)
    \/ Optimize(t, c)
    \/ Postprocess(t, c)
    \/ IsSetEnd(t, c)
    \/ Set(t, c)

Next ==
    \/ Start
    \/ Submit
    \/ Collect
    \/ Return
    \/ \E t \in Targets, c \in Cycles : Worker(t, c)

Spec == Init /\ [][Next]_vars

\* generator has just been called for a generation run at verbosity 0 on a
\* machine with the most cores: the configured parallelism gives every number
\* of cores in use.
InitFair ==
    /\ config \in [verbosity : {0},
                   print_config : BOOLEAN,
                   postprocess : BOOLEAN,
                   parallel : 1..MaxParallel,
                   num_molecules : 1..MaxMolecules,
                   max_cycles : 1..MaxCycles,
                   refine_engine : {"xtb"},
                   postprocess_engine : {"orca"}]
    /\ cpu_count = MaxCpu
    /\ paths = [xtb |-> "found", orca |-> "found"]
    /\ DriverInit
    /\ ChargeIdle

\* The driver with every step that can be taken taken in the end: the pool
\* runs the calls it has, and starmap returns once they are done.
FairSpec == InitFair /\ [][Next]_vars /\ WF_vars(Next)

\* The same driver, called with every engine configuration.
SpecEngines == InitEngines /\ [][Next]_vars

\* ------------------------------------------------------- set_random_charge
\* The atoms of the calls: 0-based atomic numbers of H, B, C, N, O and La.
Elements == {0, 4, 5, 6, 7, 56}

\* The lanthanides, 0-based: La (56) to Lu (70).
IsLanthanide(a) == 56 <= a /\ a <= 70

HasLanthanide(ati) == \E i \in 1..Len(ati) : IsLanthanide(ati[i])

\* The electrons of the neutral molecule: the atomic numbers, 1-based, summed.
RECURSIVE Electrons(_)
Electrons(ati) ==
    IF ati = <<>> THEN 0 ELSE (ati[1] + 1) + Electrons(Tail(ati))

\* Mutant: the candidates of the two parities are swapped.
StandardChargesSwapped(nel) == IF nel % 2 = 0 THEN {-1, 1} ELSE {-2, 0, 2}

\* The charges the standard branch draws from.
StandardCharges(nel) == IF nel % 2 = 0 THEN {-2, 0, 2} ELSE {-1, 1}

\* set_random_charge is called with a sequence of atoms.
InitCharge ==
    /\ config = [verbosity |-> 0, print_config |-> FALSE, postprocess |-> FALSE,
                 parallel |-> 1, num_molecules |-> 1, max_cycles |-> 1,
                 refine_engine |-> "xtb", postprocess_engine |-> "orca"]
    /\ cpu_count = 1
    /\ paths = [xtb |-> "found", orca |-> "found"]
    /\ DriverInit
    /\ atom_types \in UNION {[1..n -> Elements] : n \in 1..MaxAtoms}
    /\ charge_pc = "call"
    /\ charge = 0
    /\ uhf = 0

\* The standard branch of set_random_charge: no unpaired electron and one of
\* the candidate charges, drawn at random.
SetRandomCharge ==
    /\ charge_pc = "call"
    /\ ~HasLanthanide(atom_types)
    /\ \E ch \in StandardCharges(Electrons(atom_types)) : charge' = ch
    /\ uhf' = 0
    /\ charge_pc' = "done"
    /\ UNCHANGED <<config, cpu_count, pc, num_cores, molcount, events,
                   stop_event, backup_verbosity, results, optimized_molecules,
                   retval, error, tasks, config0, paths, atom_types, setupFrame>>

NextCharge == SetRandomCharge

SpecCharge == InitCharge /\ [][NextCharge]_vars

\* ================================================================ claims
\* The cycles of the batch that is being run or was collected last.
BatchCycles == CyclesOf(config)

\* C1: within the batch of one target at most one call of
\* single_molecule_generator returns a molecule, and at most one call sets the
\* cancellation signal.
C1_AtMostOneWinner ==
    \A t \in Targets :
        /\ Cardinality({c \in Cycles : tasks[t, c].result # None}) <= 1
        /\ Cardinality({c \in Cycles : tasks[t, c].didset}) <= 1

\* C2: after a batch has been collected, the molecule accepted for its target
\* is the result at the lowest cycle index among the results that are not None.
C2_LowestCycleAccepted ==
    (molcount > 0 /\ pc # "raised") =>
        \E k \in BatchCycles :
            /\ results[k] # None
            /\ \A j \in 0..(k - 1) : results[j] = None
            /\ Len(optimized_molecules) = molcount
            /\ optimized_molecules[molcount] = results[k]
            /\ results[k].cycle = k
            /\ results[k].target = molcount - 1

\* C2 witness: the first call failed, two later calls both returned a molecule,
\* and the one of the lower cycle was accepted.
C2_Witness ==
    /\ pc = "loop"
    /\ molcount = 1
    /\ results[0] = None
    /\ results[1] # None
    /\ results[2] # None
    /\ optimized_molecules[1].cycle = 1

\* C3: generator raises the fatal error exactly when all the results of a batch
\* are None; the message names molcount + 1, nothing is returned and no later
\* target is started.
C3_ExhaustedError ==
    /\ (pc = "raised" \/ molcount > 0) =>
           ((\A c \in BatchCycles : results[c] = None) <=> pc = "raised")
    /\ pc = "raised" =>
           /\ error = molcount + 1
           /\ ~retval.returned
           /\ Len(optimized_molecules) = molcount
           /\ \A t \in Targets, c \in Cycles :
                  t > molcount => tasks[t, c].pc = "unsubmitted"
    /\ pc # "raised" => error = 0

\* C3 witness: the second target of three or fewer exhausted its cycles after
\* the first was accepted.
C3_Witness ==
    /\ pc = "raised"
    /\ molcount = 1
    /\ error = 2
    /\ config.max_cycles >= 2

\* C4: a normal return of a generation run gives a list of num_molecules
\* molecules, the i-th of them a molecule made by a call of the i-th batch.
C4_ReturnedList ==
    /\ \A i \in 1..Len(optimized_molecules) :
           /\ optimized_molecules[i] # None
           /\ optimized_molecules[i].target = i - 1
           /\ optimized_molecules[i].cycle \in BatchCycles
    /\ (retval.returned /\ ~config.print_config) =>
           /\ retval.has_list
           /\ retval.code = 0
           /\ Len(retval.molecules) = config.num_molecules
           /\ retval.molecules = optimized_molecules

\* C4 witness: a run for two molecules has returned its list.
C4_Witness ==
    /\ pc = "returned"
    /\ retval.has_list
    /\ config.num_molecules = 2
    /\ Len(retval.molecules) = 2

\* What a published molecule has been through.
Complete(m, cfg) == m.optimized /\ (cfg.postprocess => m.postprocessed)

\* C5: every result of a call that is not None is optimized and, with
\* postprocessing enabled, postprocessed; a call whose postprocessing failed
\* returns None.
C5_NeverPartial ==
    /\ \A t \in Targets, c \in Cycles :
           /\ tasks[t, c].result # None => Complete(tasks[t, c].result, config)
           /\ (tasks[t, c].pc = "returned" /\ tasks[t, c].failed = "postprocess")
                  => tasks[t, c].result = None
    /\ \A c \in Cycles : results[c] # None => Complete(results[c], config)
    /\ \A i \in 1..Len(optimized_molecules) :
           Complete(optimized_molecules[i], config)

\* C5 witness: with postprocessing enabled, one call of a batch returned None
\* after its postprocessing failed and a sibling returned a molecule.
C5_Witness ==
    \E t \in Targets, c1 \in Cycles, c2 \in Cycles :
        /\ config.postprocess
        /\ tasks[t, c1].pc = "returned"
        /\ tasks[t, c1].failed = "postprocess"
        /\ tasks[t, c2].result # None
        /\ tasks[t, c2].result.postprocessed

\* C6: the step in which a call fails recoverably makes it return None; it
\* does not set the signal, changes no other call and does not move the
\* coordinator into an error.
C6_RecoverableFailure ==
    [][\A t \in Targets, c \in Cycles :
          (tasks[t, c].failed = "no" /\ tasks'[t, c].failed # "no") =>
              /\ tasks'[t, c].pc = "returned"
              /\ tasks'[t, c].result = None
              /\ ~tasks'[t, c].didset
              /\ events' = events
              /\ pc' = pc
              /\ error' = error
              /\ \A w \in Targets \X Cycles :
                     w # <<t, c>> => tasks'[w] = tasks[w]]_vars

\* C6 witness: a call failed in refinement and a sibling of a higher cycle
\* returned a molecule.
C6_Witness ==
    \E t \in Targets, c1 \in Cycles, c2 \in Cycles :
        /\ c1 < c2
        /\ tasks[t, c1].pc = "returned"
        /\ tasks[t, c1].failed = "refine"
        /\ tasks[t, c2].result # None

\* C7: a call that finds the signal set when it starts returns None in that
\* step, having run none of generator, optimizer and postprocessor, and leaves
\* the signal as it is.
C7_EarlyExit ==
    [][\A t \in Targets, c \in Cycles :
          (/\ tasks[t, c].pc = "is_set_start"
           /\ tasks'[t, c].pc # "is_set_start"
           /\ events[tasks[t, c].ev]) =>
              /\ tasks'[t, c].pc = "returned"
              /\ tasks'[t, c].result = None
              /\ tasks'[t, c].ran = {}
              /\ tasks'[t, c].mol = None
              /\ events' = events]_vars

\* C7 witness: a call has returned early: its signal is set and it ran nothing.
C7_Witness ==
    \E t \in Targets, c \in Cycles :
        /\ tasks[t, c].pc = "returned"
        /\ tasks[t, c].ran = {}
        /\ tasks[t, c].result = None
        /\ events[tasks[t, c].ev]

\* C8: the coordinator takes the results, accepts a molecule or raises the
\* error only in a step that starts with every call of the batch returned.
C8_WaitsForBatch ==
    [][(\/ optimized_molecules' # optimized_molecules
        \/ results' # results
        \/ molcount' # molcount
        \/ (pc' = "raised" /\ pc # "raised")
        \/ (pc = "starmap" /\ pc' # "starmap")) =>
           \A c \in BatchCycles : tasks[molcount, c].pc = "returned"]_vars

\* C8 witness: a call has returned a molecule, a sibling is still running, and
\* the coordinator is still waiting in starmap with nothing accepted.
C8_Witness ==
    \E c1 \in Cycles, c2 \in Cycles :
        /\ pc = "starmap"
        /\ tasks[molcount, c1].result # None
        /\ tasks[molcount, c2].pc \in {"generate", "optimize", "postprocess"}
        /\ Len(optimized_molecules) = molcount

\* C9: the calls that are queued or running all belong to the target in work,
\* and a call of target t + 1 exists only when every call of target t has
\* returned and been collected and the molecule of target t is accepted.
C9_TargetsSequential ==
    \A t \in Targets, c \in Cycles :
        tasks[t, c].pc \notin {"unsubmitted", "collected"} =>
            /\ t = molcount
            /\ pc = "starmap"
            /\ Len(optimized_molecules) = t
            /\ \A u \in 0..(t - 1), d \in BatchCycles :
                   tasks[u, d].pc = "collected"

\* C9 witness: a call of the second target runs; the first target is collected.
C9_Witness ==
    \E c \in Cycles :
        /\ tasks[1, c].pc = "optimize"
        /\ tasks[0, 0].pc = "collected"
        /\ Len(optimized_molecules) = 1

\* C10: while a batch runs, its calls all hold the event made for this target,
\* which is set exactly when a call of this batch has set it; a call of the
\* batch returns early only after a call of the same batch set the signal.
C10_FreshSignal ==
    pc = "starmap" =>
        /\ stop_event = Len(events)
        /\ stop_event = molcount + 1
        /\ \A c \in BatchCycles : tasks[molcount, c].ev = stop_event
        /\ events[stop_event] <=> \E c \in BatchCycles : tasks[molcount, c].didset
        /\ \A c \in BatchCycles :
               (tasks[molcount, c].pc = "returned" /\ tasks[molcount, c].ran = {})
                   => \E d \in BatchCycles : tasks[molcount, d].didset

\* C10 witness: the first target's signal is set, the second target's is not,
\* and a call of the second target has passed its first check of the signal.
C10_Witness ==
    /\ pc = "starmap"
    /\ molcount = 1
    /\ events[1]
    /\ ~events[2]
    /\ \E c \in Cycles : tasks[1, c].pc = "generate"

\* The calls that a process of a pool is running.
RunningCalls ==
    {w \in Targets \X Cycles :
        tasks[w].pc \in {"is_set_start", "generate", "optimize", "postprocess",
                         "is_set", "set"}}

\* The calls that exist: submitted and not yet collected.
LiveCalls == {w \in Targets \X Cycles : tasks[w].config # None}

\* C11 (as stated): every configuration field, general.verbosity included, has
\* in every state of the run the value it had when generator was called, in
\* the coordinator and in every worker.
C11_ConfigReadOnly ==
    /\ config = config0
    /\ \A w \in LiveCalls : tasks[w].config = config0

\* C11 (amended): every field other than general.verbosity keeps its value;
\* general.verbosity differs from its value at the call only while a batch runs
\* on more than one core, and is 0 then; a worker holds the coordinator's
\* configuration of its batch.
C11_OnlyVerbosityChanges ==
    /\ [config EXCEPT !.verbosity = config0.verbosity] = config0
    /\ config.verbosity # config0.verbosity =>
           /\ pc = "starmap"
           /\ num_cores > 1
           /\ config.verbosity = 0
    /\ \A w \in LiveCalls : tasks[w].config = config

\* C11 witness: a batch runs with the verbosity lowered from 1 to 0.
C11_Witness ==
    /\ pc = "starmap"
    /\ config0.verbosity = 1
    /\ config.verbosity = 0
    /\ \E w \in RunningCalls : tasks[w].config.verbosity = 0

\* C12: never more calls run at once than the lower of the configured
\* parallelism and the available cores, which is the degree of the pool; the
\* clamping warning is emitted at most once, never when the parallelism does
\* not exceed the cores, and exactly once in a run that reaches its pool when
\* it does.
C12_PoolDegree ==
    LET degree == IF config0.parallel < cpu_count
                  THEN config0.parallel ELSE cpu_count
    IN /\ Cardinality(RunningCalls) <= degree
       /\ pc \in {"loop", "starmap", "raised"} => num_cores = degree
       /\ warnings.clamp <= 1
       /\ config0.parallel <= cpu_count => warnings.clamp = 0
       /\ (config0.parallel > cpu_count
              /\ (pc \in {"loop", "starmap", "raised"} \/ retval.has_list))
            => warnings.clamp = 1

\* C12 witness: parallelism 2 on one core: the warning was emitted once, one
\* call runs and the next one waits for the only process.
C12_Witness ==
    /\ config0.parallel = 2
    /\ cpu_count = 1
    /\ warnings.clamp = 1
    /\ \E c \in Cycles :
           /\ tasks[molcount, c].pc = "optimize"
           /\ c + 1 \in Cycles
           /\ tasks[molcount, c + 1].pc = "queued"

\* Whether setup_engines fails for an engine name on this machine.
Unusable(name) ==
    IF name = "xtb" THEN paths.xtb # "found"
    ELSE IF name = "orca" THEN paths.orca # "found"
    ELSE TRUE

\* C13: a generation run whose refine engine, or whose postprocess engine with
\* postprocessing enabled, is unsupported or cannot be resolved ends in an
\* error with no event created and no call submitted, and only such a run
\* does; with postprocessing disabled setup_engines is not called for the
\* postprocess engine.
C13_EngineAbort ==
    LET refineBad == Unusable(config0.refine_engine)
        postBad == config0.postprocess /\ Unusable(config0.postprocess_engine)
        first == IF refineBad THEN config0.refine_engine
                 ELSE config0.postprocess_engine
    IN /\ (pc # "start" /\ ~config0.print_config /\ (refineBad \/ postBad)) =>
              /\ pc = "aborted"
              /\ exception = IF first \in {"xtb", "orca"}
                             THEN "ImportError" ELSE "NotImplementedError"
       /\ pc = "aborted" =>
              /\ refineBad \/ postBad
              /\ events = <<>>
              /\ stop_event = 0
              /\ LiveCalls = {}
              /\ \A w \in Targets \X Cycles : tasks[w].pc = "unsubmitted"
              /\ ~retval.returned
       /\ pc # "aborted" => exception = "none"
       /\ ~config0.postprocess =>
              /\ "postprocess" \notin setup_calls
              /\ postprocess_engine \in {"unbound", "None"}
       /\ pc \in {"loop", "starmap", "raised"} =>
              /\ refine_engine \in {"XTB", "ORCA"}
              /\ config0.postprocess => postprocess_engine \in {"XTB", "ORCA"}

\* C13 witness: the refine engine was set up, the postprocess engine is known
\* but its path function found nothing, and the run has ended in ImportError.
C13_Witness ==
    /\ pc = "aborted"
    /\ exception = "ImportError"
    /\ refine_engine = "XTB"
    /\ config0.postprocess_engine = "orca"
    /\ paths.orca = "empty"
    /\ setup_calls = {"refine", "postprocess"}

\* The messages of a call that verbosity above 0 brings.
Verbose(out) == out \ {"tick"}

\* C14 (as stated): with a configured parallelism above 1 every call of every
\* batch observes verbosity 0 and prints no verbose message.
C14_SuppressedWhenParallel ==
    config0.parallel > 1 =>
        \A w \in LiveCalls :
            /\ tasks[w].config.verbosity = 0
            /\ Verbose(tasks[w].out) = {}

\* C14 (amended): with more than one core in use, that is with both the
\* configured parallelism and the available cores above 1, every call of every
\* batch observes verbosity 0 and prints no verbose message.
C14_SuppressedWhenMultiCore ==
    (config0.parallel > 1 /\ cpu_count > 1) =>
        \A w \in LiveCalls :
            /\ tasks[w].config.verbosity = 0
            /\ Verbose(tasks[w].out) = {}

\* C14 witness: configured verbosity 1 on two cores: a call failed in
\* refinement and printed only its cycle mark.
C14_Witness ==
    /\ config0.verbosity = 1
    /\ num_cores = 2
    /\ \E w \in LiveCalls :
           /\ tasks[w].failed = "refine"
           /\ tasks[w].out = {"tick"}

\* C19: general.verbosity is 0 exactly while a batch runs on more than one core
\* with a positive configured verbosity, and has its value from the call at
\* every other time, so also when generator has returned or raised.
C19_VerbosityScoped ==
    /\ config.verbosity =
           IF pc = "starmap" /\ num_cores > 1 /\ config0.verbosity > 0
           THEN 0 ELSE config0.verbosity
    /\ pc \in {"returned", "raised"} => config.verbosity = config0.verbosity

\* C19 witness: the second batch of a run on two cores with verbosity 1 was
\* collected and the exhausted error raised, with the verbosity back at 1.
C19_Witness ==
    /\ pc = "raised"
    /\ molcount = 1
    /\ num_cores = 2
    /\ config0.verbosity = 1
    /\ config.verbosity = 1
    /\ backup_verbosity = 1

\* C15: for atoms without a lanthanide set_random_charge returns 0 unpaired
\* electrons and a charge of the parity of the electron count: -1 or 1 for an
\* odd count, -2, 0 or 2 for an even one.
C15_ChargeParity ==
    (charge_pc = "done" /\ ~HasLanthanide(atom_types)) =>
        LET nel == Electrons(atom_types)
        IN /\ uhf = 0
           /\ charge % 2 = nel % 2
           /\ nel % 2 = 1 => charge \in {-1, 1}
           /\ nel % 2 = 0 => charge \in {-2, 0, 2}

\* C15 witness: B, N, H (13 electrons) got the charge -1.
C15_Witness ==
    /\ charge_pc = "done"
    /\ atom_types = <<4, 6, 0>>
    /\ charge = -1
    /\ uhf = 0

\* C16 (as stated): a call that is about to postprocess has looked at the
\* signal since its optimization, that is at least twice.
C16_CheckBetweenSteps ==
    \A w \in LiveCalls :
        tasks[w].pc = "postprocess" => tasks[w].checks >= 2

\* The molecule of a call has been through every expensive step.
Finished(k) ==
    /\ "optimize" \in k.ran
    /\ k.config.postprocess => "postprocess" \in k.ran
    /\ k.failed = "no"

\* C16 (amended): a call looks at the signal once before its first expensive
\* step and once after its last one, and nowhere between; having found it set
\* at the start it runs no expensive step, having found it set at the end it
\* returns None.
C16_ChecksAtStartAndEnd ==
    \A w \in LiveCalls :
        LET k == tasks[w]
        IN /\ k.pc \in {"queued", "is_set_start"} => k.checks = 0 /\ k.ran = {}
           /\ k.pc \in {"generate", "optimize", "postprocess", "is_set"}
                  => k.checks = 1
           /\ k.pc = "set" => k.checks = 2
           /\ k.pc = "returned" =>
                  k.checks = IF k.ran = {} \/ k.failed # "no" THEN 1 ELSE 2
           /\ k.checks = 2 => Finished(k)
           /\ (k.pc = "returned" /\ k.checks = 2 /\ ~k.didset)
                  => k.result = None
           /\ k.result # None => k.checks = 2 /\ k.didset

\* C16 witness: a call is about to postprocess, having looked at the signal
\* once, while the signal is set by a sibling that has returned its molecule.
C16_Witness ==
    \E w \in LiveCalls :
        /\ tasks[w].pc = "postprocess"
        /\ tasks[w].checks = 1
        /\ events[tasks[w].ev]
        /\ \E c \in Cycles : tasks[w[1], c].result # None

\* C17: a call that got through all its steps and returned None has a sibling
\* that returned a molecule, and a batch in which a call got through all its
\* steps is collected with a molecule accepted and no error raised.
C17_NoSuccessLost ==
    /\ [](\A w \in LiveCalls :
            (tasks[w].pc = "returned" /\ Finished(tasks[w])
                /\ tasks[w].result = None)
              => \E c \in BatchCycles :
                     /\ tasks[w[1], c].pc = "returned"
                     /\ tasks[w[1], c].result # None)
    /\ [][(/\ pc = "starmap"
           /\ pc' # "starmap"
           /\ \E c \in BatchCycles : Finished(tasks[molcount, c])) =>
              /\ pc' = "loop"
              /\ error' = 0
              /\ Len(optimized_molecules') = Len(optimized_molecules) + 1
              /\ optimized_molecules'[Len(optimized_molecules')] # None]_vars

\* C17 witness: a batch is complete in which one call got through all its
\* steps and returned None because a sibling had set the signal.
C17_Witness ==
    /\ pc = "starmap"
    /\ \A c \in BatchCycles : tasks[molcount, c].pc = "returned"
    /\ \E c \in BatchCycles, d \in BatchCycles :
           /\ Finished(tasks[molcount, c])
           /\ tasks[molcount, c].result = None
           /\ tasks[molcount, d].result # None

\* C18: under fair scheduling every run ends: generator returns (the molecule
\* list, in a generation run) or raises the exhausted error; and starmap
\* returns with one returned call for each cycle from 0 to max_cycles - 1.
C18_Terminates ==
    /\ <>(\/ pc = "raised"
          \/ (pc = "returned" /\ (retval.has_list \/ config0.print_config)))
    /\ [][(pc = "starmap" /\ pc' # "starmap") =>
              \A c \in Cycles :
                  IF c < config0.max_cycles
                  THEN tasks[molcount, c].pc = "returned"
                  ELSE tasks[molcount, c].pc = "unsubmitted"]_vars

\* C18 witness: a run for the largest number of molecules and cycles has
\* returned its list, every call collected.
C18_Witness ==
    /\ pc = "returned"
    /\ retval.has_list
    /\ config0.num_molecules = MaxMolecules
    /\ config0.max_cycles = MaxCycles
    /\ \A w \in Targets \X Cycles : tasks[w].pc = "collected"

====
